---- MODULE Spec2Model ----
(***************************************************************************)
(* crossfire-grafana-go: an HTTP facade over the Firestore REST API.       *)
(*                                                                         *)
(* Two routers exist in the repository: main.go's own setupRouter (the     *)
(* one main() runs) and routes.SetupRouter, which dispatches to the        *)
(* handlers package and the paginated services package.  The variable      *)
(* `entry` says which of them serves.  Every incoming request is served by *)
(* its own goroutine; all handler state is local to the request.           *)
(*                                                                         *)
(* JSON values (Go's interface{} after json decoding) are tagged records:  *)
(*   [t |-> "null"], [t |-> "string", s |-> ..], [t |-> "number", n |-> ..]*)
(*   [t |-> "map", m |-> function], [t |-> "array", a |-> sequence],       *)
(* and [t |-> "panic"] stands for a failed type assertion.                 *)
(***************************************************************************)
EXTENDS Integers, Sequences, FiniteSets, TLC

\* ------------------------------------------------------------- bounds
NumRequests == 2
MaxRestaurants == 3
MaxPageSize == 3

Requests == 1..NumRequests

\* ------------------------------------------------------- JSON values
JNull == [t |-> "null"]
JStr(s) == [t |-> "string", s |-> s]
JNum(n) == [t |-> "number", n |-> n]
JMap(f) == [t |-> "map", m |-> f]
JArr(a) == [t |-> "array", a |-> a]
Panic == [t |-> "panic"]
EmptyMap == JMap(<<>>)

\* v.(map[string]interface{})[k]: the assertion panics on anything but a map
\* (nil included); a missing key yields nil.
MapIndex(v, k) ==
  IF v.t = "map"
  THEN IF k \in DOMAIN v.m THEN v.m[k] ELSE JNull
  ELSE Panic

\* v.(string)
AssertString(v) == IF v.t = "string" THEN v ELSE Panic

\* v.([]interface{})
AssertArray(v) == IF v.t = "array" THEN v ELSE Panic

\* v.(map[string]interface{})
AssertMap(v) == IF v.t = "map" THEN v ELSE Panic

\* Firestore's typed-value wrappers
StringValue(s) == JMap("stringValue" :> JStr(s))
IntegerValue(s) == JMap("integerValue" :> JStr(s))
MapValue(f) == JMap("mapValue" :> JMap("fields" :> JMap(f)))
ArrayValue(a) == IF a = <<>> THEN JMap("arrayValue" :> EmptyMap)
                 ELSE JMap("arrayValue" :> JMap("values" :> JArr(a)))

Digit == <<"1", "2", "3", "4", "5", "6", "7", "8", "9">>

\* ------------------------------------------- the remote document store
\* (external collaborator: the documents the Firestore REST API serves).
\* A stored document: the path of its parent, the id of its collection and
\* its JSON as the REST API returns it (a document without fields has no
\* "fields" key).
Doc(name, fields) == JMap("name" :> JStr(name) @@ "fields" :> JMap(fields))
BareDoc(name) == JMap("name" :> JStr(name))
Stored(parent, coll, doc) == [parent |-> parent, coll |-> coll, doc |-> doc]

BillTo(state, code, suburb) ==
  MapValue("BillTo" :> MapValue("State" :> StringValue(state)
                                @@ "StoreCode" :> StringValue(code)
                                @@ "Suburb" :> StringValue(suburb)))

LatestParent == <<"latest-orders", "NANALL">>
DeadParent == <<"dead-letters", "NANALL">>

RestaurantName(i) == "restaurants/r" \o Digit[i]
RestaurantDoc(i) ==
  Doc(RestaurantName(i), "details" :> StringValue("R" \o Digit[i]))

Restaurants(n) == [i \in 1..n |-> Stored(<<>>, "restaurants", RestaurantDoc(i))]

OtherDocuments ==
  << Stored(<<"archive", "2023">>, "I001",
       Doc("archive/2023/I001/o9",
           "orderNumber" :> StringValue("900") @@ "createdAt" :> StringValue("c9")
           @@ "datePosted" :> StringValue("p9"))),
     Stored(<<"dead-letters", "OTHER">>, "2024-12-16",
       Doc("dead-letters/OTHER/2024-12-16/d9",
           "originalPayload" :> MapValue("OrderNumber" :> StringValue("N9")
              @@ "StoreOrders" :> ArrayValue(<<BillTo("WA", "S9", "Perth")>>))
           @@ "errorMessage" :> StringValue("e9"))),
     Stored(DeadParent, "2024-12-16", BareDoc("dead-letters/NANALL/2024-12-16/d0")),
     Stored(DeadParent, "2024-12-16",
       Doc("dead-letters/NANALL/2024-12-16/d1",
           "originalPayload" :> MapValue("OrderNumber" :> StringValue("N1")
              @@ "StoreOrders" :> ArrayValue(<<BillTo("NSW", "S1", "Ryde"),
                                               BillTo("VIC", "S2", "Kew")>>))
           @@ "errorMessage" :> StringValue("e1"))),
     Stored(DeadParent, "2024-12-16",
       Doc("dead-letters/NANALL/2024-12-16/d2",
           "originalPayload" :> MapValue("OrderNumber" :> StringValue("N2")
              @@ "StoreOrders" :> ArrayValue(<<BillTo("QLD", "S3", "Ascot")>>))
           @@ "errorMessage" :> StringValue("e2"))),
     Stored(DeadParent, "2024-12-17",
       Doc("dead-letters/NANALL/2024-12-17/d3",
           "errorMessage" :> StringValue("e3"))),
     Stored(DeadParent, "2024-12-18",
       Doc("dead-letters/NANALL/2024-12-18/d4",
           "originalPayload" :> MapValue("OrderNumber" :> IntegerValue("4")
              @@ "StoreOrders" :> ArrayValue(<<BillTo("SA", "S4", "Glenelg")>>))
           @@ "errorMessage" :> StringValue("e4"))),
     Stored(DeadParent, "2024-12-19",
       Doc("dead-letters/NANALL/2024-12-19/d5",
           "originalPayload" :> MapValue("OrderNumber" :> StringValue("N5")
              @@ "StoreOrders" :> ArrayValue(<<>>))
           @@ "errorMessage" :> StringValue("e5"))),
     Stored(DeadParent, "2024-12-20",
       Doc("dead-letters/NANALL/2024-12-20/d6",
           "originalPayload" :> StringValue("raw")
           @@ "errorMessage" :> StringValue("e6"))),
     Stored(LatestParent, "I001",
       Doc("latest-orders/NANALL/I001/o1",
           "orderNumber" :> StringValue("100") @@ "createdAt" :> StringValue("c1")
           @@ "datePosted" :> StringValue("p1"))),
     Stored(LatestParent, "I001",
       Doc("latest-orders/NANALL/I001/o2",
           "orderNumber" :> StringValue("101"))),
     Stored(LatestParent, "I002",
       Doc("latest-orders/NANALL/I002/o3",
           "orderNumber" :> IntegerValue("102") @@ "createdAt" :> StringValue("c3"))),
     Stored(LatestParent, "I003",
       Doc("latest-orders/NANALL/I003/o4",
           "orderNumber" :> StringValue("103") @@ "createdAt" :> JStr("c4"))),
     Stored(LatestParent, "I004",
       Doc("latest-orders/NANALL/I004/o5",
           "datePosted" :> JMap("stringValue" :> JNum(5)))),
     Stored(LatestParent, "I005", BareDoc("latest-orders/NANALL/I005/o6")) >>

Store(n) == Restaurants(n) \o OtherDocuments

IsPrefix(p, q) == Len(p) <= Len(q) /\ SubSeq(q, 1, Len(p)) = p

SeqMap(Op(_), s) == [i \in DOMAIN s |-> Op(s[i])]

RECURSIVE SelectDocs(_, _, _, _)
SelectDocs(st, parent, coll, allDescendants) ==
  IF st = <<>> THEN <<>>
  ELSE LET d == Head(st)
           hit == /\ d.coll = coll
                  /\ IF allDescendants THEN IsPrefix(parent, d.parent)
                     ELSE d.parent = parent
       IN (IF hit THEN <<d.doc>> ELSE <<>>)
          \o SelectDocs(Tail(st), parent, coll, allDescendants)

\* The page token the remote issues for the page starting after offset k,
\* and the offset a token stands for.
PageTokenAt(k) == "tok" \o Digit[k]
OffsetOf(token) == IF token = "" THEN 0
                   ELSE CHOOSE k \in 1..Len(Digit) : PageTokenAt(k) = token

Min(a, b) == IF a <= b THEN a ELSE b

\* documents.list of a collection: one page of at most `size` documents from
\* the offset the token stands for; nextPageToken only when more remain; no
\* "documents" key on an empty page.
ListDocumentsBody(st, coll, token, size) ==
  LET all == SelectDocs(st, <<>>, coll, FALSE)
      k == OffsetOf(token)
      last == Min(k + size, Len(all))
      page == SubSeq(all, k + 1, last)
  IN JMap((IF page = <<>> THEN <<>> ELSE "documents" :> JArr(page))
          @@ (IF last < Len(all) THEN "nextPageToken" :> JStr(PageTokenAt(last))
              ELSE <<>>))

ReadTime == JStr("2025-01-29T00:00:00Z")
QueryElement(doc) == JMap("document" :> doc @@ "readTime" :> ReadTime)

\* documents:runQuery under the database root: one element per document of
\* the selected collections; a query matching nothing answers a single
\* element that carries only readTime.
RunQueryBody(st, query) ==
  LET docs == SelectDocs(st, <<>>, query.collectionId, query.allDescendants)
  IN IF docs = <<>> THEN JArr(<<JMap("readTime" :> ReadTime)>>)
     ELSE JArr(SeqMap(QueryElement, docs))

\* a body that is not the JSON the decoder expects (an HTML error page)
GarbageBody == JStr("<html>")


\* ------------------------------------------------- Go-side JSON decoding
\* items put in front of the slice instead of behind it
GoPrepend(slice, items) ==
  IF items = <<>> THEN slice
  ELSE IF slice.t = "array" THEN JArr(items \o slice.a) ELSE JArr(items)

\* A Go slice is JNull (nil, marshalled as null) or JArr(items).
GoAppend(slice, items) ==
  IF items = <<>> THEN slice
  ELSE IF slice.t = "array" THEN JArr(slice.a \o items) ELSE JArr(items)

SliceItems(slice) == IF slice.t = "array" THEN slice.a ELSE <<>>

\* FirestoreDocument{Name string; Fields map[string]interface{}}
FirestoreDocument(name, fields) == [Name |-> name, Fields |-> fields]
ZeroDocument == FirestoreDocument("", JNull)
DecodeError == [err |-> TRUE]
Decoded(v) == [err |-> FALSE, v |-> v]

\* encoding/json into a FirestoreDocument: null leaves the zero value, a
\* missing or null member leaves its field zero, a member of the wrong JSON
\* type is an UnmarshalTypeError.
DecodeDocument(v) ==
  IF v.t = "null" THEN Decoded(ZeroDocument)
  ELSE IF v.t # "map" THEN DecodeError
  ELSE LET n == MapIndex(v, "name")
           f == MapIndex(v, "fields")
       IN IF n.t \notin {"null", "string"} \/ f.t \notin {"null", "map"}
          THEN DecodeError
          ELSE Decoded(FirestoreDocument(IF n.t = "string" THEN n.s ELSE "", f))

DecodeDocuments(a) ==
  LET ds == [i \in DOMAIN a |-> DecodeDocument(a[i])]
  IN IF \E i \in DOMAIN a : ds[i].err THEN DecodeError
     ELSE Decoded([i \in DOMAIN a |-> ds[i].v])

\* struct{Documents []FirestoreDocument; NextPageToken string}
DecodeListResult(body) ==
  IF body.t = "null" THEN Decoded([Documents |-> JNull, NextPageToken |-> ""])
  ELSE IF body.t # "map" THEN DecodeError
  ELSE LET d == MapIndex(body, "documents")
           t == MapIndex(body, "nextPageToken")
           ds == IF d.t = "array" THEN DecodeDocuments(d.a) ELSE Decoded(<<>>)
       IN IF d.t \notin {"null", "array"} \/ t.t \notin {"null", "string"} \/ ds.err
          THEN DecodeError
          ELSE Decoded([Documents |-> IF d.t = "array" THEN JArr(ds.v) ELSE JNull,
                        NextPageToken |-> IF t.t = "string" THEN t.s ELSE ""])

\* one element of []struct{Document FirestoreDocument}
DecodeQueryElement(v) ==
  IF v.t = "null" THEN Decoded(ZeroDocument)
  ELSE IF v.t # "map" THEN DecodeError
  ELSE DecodeDocument(MapIndex(v, "document"))

\* []struct{Document ...}: the decoded documents, one per element
DecodeQueryResult(body) ==
  IF body.t = "null" THEN Decoded(<<>>)
  ELSE IF body.t # "array" THEN DecodeError
  ELSE LET ds == [i \in DOMAIN body.a |-> DecodeQueryElement(body.a[i])]
       IN IF \E i \in DOMAIN ds : ds[i].err THEN DecodeError
          ELSE Decoded([i \in DOMAIN ds |-> ds[i].v])

\* json.Marshal of a FirestoreDocument
MarshalDocument(d) == JMap("name" :> JStr(d.Name) @@ "fields" :> d.Fields)


\* ------------------------------------------------------ HTTP responses
Response(status, body) == [status |-> status, body |-> body]
NoResponse == Response(0, JNull)
ErrorResponse(status, msg) == Response(status, JMap("error" :> JStr(msg)))
\* gin.Default() installs Recovery: a panicking handler is answered 500
\* with an empty body.
RecoveryResponse == Response(500, JNull)
HomeResponse == Response(200, JMap("message" :> JStr("Server is running")))
ParamRequired == "subCollection query parameter is required"
DocumentsResponse(msg, documents) ==
  Response(200, JMap("message" :> JStr(msg) @@ "documents" :> documents))

\* error texts of the collaborators (opaque to the program)
TokenErrorText == "failed to generate access token: oauth2: cannot fetch token"
TransportErrorText == "dial tcp: i/o timeout"
StatusText(code) == IF code = 200 THEN "200 OK" ELSE "503 Service Unavailable"

\* ------------------------------------------- /latest-orders processing
\* if f, ok := fields[key]; ok { x = f.(map[string]interface{})["stringValue"].(string) }
LatestStringField(fields, key) ==
  IF fields.t = "map" /\ key \in DOMAIN fields.m
  THEN AssertString(MapIndex(fields.m[key], "stringValue"))
  ELSE JStr("")

LatestCombinedField(sub, doc) ==
  LET orderNumber == LatestStringField(doc.Fields, "orderNumber")
      createdAt == LatestStringField(doc.Fields, "createdAt")
      datePosted == LatestStringField(doc.Fields, "datePosted")
  IN IF Panic \in {orderNumber, createdAt, datePosted} THEN Panic
     ELSE JStr(sub \o " - " \o orderNumber.s \o " - " \o createdAt.s
               \o " - " \o datePosted.s)

LatestEntry(sub, doc) ==
  LET combinedField == LatestCombinedField(sub, doc)
  IN IF combinedField = Panic THEN Panic
     ELSE JMap("name" :> JStr(doc.Name) @@ "fields" :> doc.Fields
               @@ "combinedField" :> combinedField)

\* the loop over documents: processedDocuments, or a panic
LatestProcessed(sub, documents) ==
  LET es == [i \in DOMAIN documents |-> LatestEntry(sub, documents[i])]
  IN IF \E i \in DOMAIN es : es[i] = Panic THEN Panic
     ELSE GoAppend(JNull, es)

LatestOrdersRespond(sub, documents) ==
  LET processed == LatestProcessed(sub, documents)
  IN IF processed = Panic THEN RecoveryResponse
     ELSE DocumentsResponse("Documents fetched successfully", processed)

\* ----------------------------------- /dead-letters-specific processing
\* fmt's %s verb on an interface{} value (main.go formats without asserting).
\* Maps and arrays print their members; the store holds none in a position
\* that is formatted, so only the empty ones are spelled out.
FormatS(v) ==
  CASE v.t = "panic" -> Panic
    [] v.t = "string" -> v
    [] v.t = "null" -> JStr("%!s(<nil>)")
    [] v.t = "number" -> JStr("%!s(float64=" \o Digit[v.n] \o ")")
    [] v.t = "bool" -> JStr(IF v.b THEN "%!s(bool=true)" ELSE "%!s(bool=false)")
    [] v.t = "array" -> JStr("[]")
    [] OTHER -> JStr("map[]")

\* the documents FetchSpecificDocumentsFromFirestore returns: only those with
\* fields, as maps of name, fields and subCategory
SpecificDocument(sub, doc) ==
  JMap("name" :> JStr(doc.Name) @@ "fields" :> doc.Fields
       @@ "subCategory" :> JStr(sub))

RECURSIVE SpecificDocuments(_, _)
SpecificDocuments(sub, docs) ==
  IF docs = <<>> THEN <<>>
  ELSE (IF Head(docs).Fields # JNull THEN <<SpecificDocument(sub, Head(docs))>>
        ELSE <<>>) \o SpecificDocuments(sub, Tail(docs))

Path3(v, a, b, c) == MapIndex(MapIndex(MapIndex(v, a), b), c)
BillToField(orderFields, key) ==
  MapIndex(MapIndex(AssertMap(Path3(orderFields, "BillTo", "mapValue", "fields")),
                    key), "stringValue")

\* handlers.DeadLettersHandler asserts every part to be a string;
\* main.go's handler formats the values with %s instead.
DeadCombinedField(e, fields, originalPayload, storeOrder) ==
  LET orderFields == AssertMap(MapIndex(MapIndex(storeOrder, "mapValue"), "fields"))
      conv(v) == IF e = "routes" THEN AssertString(v) ELSE FormatS(v)
      parts == << conv(MapIndex(MapIndex(originalPayload, "OrderNumber"), "stringValue")),
                  conv(BillToField(orderFields, "State")),
                  conv(BillToField(orderFields, "StoreCode")),
                  conv(BillToField(orderFields, "Suburb")),
                  conv(MapIndex(MapIndex(fields, "errorMessage"), "stringValue")) >>
  IN IF \E i \in 1..5 : parts[i] = Panic THEN Panic
     ELSE JStr(parts[1].s \o " - " \o parts[2].s \o " - " \o parts[3].s
               \o " - " \o parts[4].s \o " - " \o parts[5].s)

DeadEntry(e, doc, fields, originalPayload, storeOrder) ==
  LET combinedField == DeadCombinedField(e, fields, originalPayload, storeOrder)
  IN IF combinedField = Panic THEN Panic
     ELSE JMap("combinedField" :> combinedField @@ "name" :> MapIndex(doc, "name")
               @@ "fields" :> fields)

\* the entries of one document (the inner loop), or a panic
DeadDocumentEntries(e, doc) ==
  LET fields == AssertMap(MapIndex(doc, "fields"))
      originalPayload == AssertMap(Path3(fields, "originalPayload", "mapValue", "fields"))
      storeOrders == AssertArray(Path3(originalPayload, "StoreOrders", "arrayValue", "values"))
  IN IF storeOrders = Panic THEN Panic
     ELSE LET es == [i \in DOMAIN storeOrders.a |->
                       DeadEntry(e, doc, fields, originalPayload, storeOrders.a[i])]
          IN IF \E i \in DOMAIN es : es[i] = Panic THEN Panic ELSE JArr(es)

RECURSIVE DeadProcessed(_, _)
DeadProcessed(e, documents) ==
  IF documents = <<>> THEN JNull
  ELSE LET first == DeadDocumentEntries(e, Head(documents))
           rest == DeadProcessed(e, Tail(documents))
       IN IF first = Panic \/ rest = Panic THEN Panic
          ELSE GoAppend(GoAppend(JNull, first.a), SliceItems(rest))

DeadLettersRespond(e, documents) ==
  LET processed == DeadProcessed(e, documents)
  IN IF processed = Panic THEN RecoveryResponse
     ELSE DocumentsResponse("Documents fetched successfully", processed)

RestaurantsRespond(documents) ==
  DocumentsResponse("Documents fetched successfully from restaurants",
                    IF documents.t = "array"
                    THEN JArr(SeqMap(MarshalDocument, documents.a)) ELSE JNull)


\* ------------------------------------------------- requests to the remote
JBool(b) == [t |-> "bool", b |-> b]

\* GET .../documents/<collection>[?pageToken=<token>]
ListRequest(collection, pageToken) ==
  [method |-> "GET", path |-> "documents", collection |-> collection,
   pageToken |-> pageToken, payload |-> JNull]

\* the structuredQuery all three runQuery callers build
QueryPayload(subCollection) ==
  JMap("structuredQuery" :>
    JMap("from" :> JArr(<<JMap("collectionId" :> JStr(subCollection)
                               @@ "allDescendants" :> JBool(TRUE))>>)))

\* a write in place of the query
CommitRequest(subCollection) ==
  [method |-> "POST", path |-> "documents:commit", collection |-> "",
   pageToken |-> "", payload |-> QueryPayload(subCollection)]

\* POST .../documents:runQuery
RunQueryRequest(subCollection) ==
  [method |-> "POST", path |-> "documents:runQuery", collection |-> "",
   pageToken |-> "", payload |-> QueryPayload(subCollection)]

\* what the remote answers to a request when it answers 200 with its data
RemoteBody(st, request, size) ==
  IF request.method = "GET"
  THEN ListDocumentsBody(st, request.collection, request.pageToken, size)
  ELSE LET from == request.payload.m["structuredQuery"].m["from"].a[1]
       IN RunQueryBody(st, [collectionId |-> from.m["collectionId"].s,
                            allDescendants |-> from.m["allDescendants"].b])

\* ------------------------------------------------------------- state
Routes == {"/", "/restaurants-cache", "/latest-orders", "/dead-letters-specific"}
\* the subCollection values tried on each route ("I404" names no collection)
SubCollections(route) ==
  CASE route = "/latest-orders" ->
         {"I001", "I002", "I003", "I004", "I005", "I404", "2024-12-16"}
    [] route = "/dead-letters-specific" ->
         {"2024-12-16", "2024-12-17", "2024-12-18", "2024-12-19", "2024-12-20",
          "I001", "I404"}
    [] OTHER -> {}
\* the subCollection query parameter: absent, or present with a value
Absent == [present |-> FALSE, value |-> ""]
Params(route) ==
  IF route \in {"/latest-orders", "/dead-letters-specific"}
  THEN {Absent} \cup {[present |-> TRUE, value |-> v] : v \in SubCollections(route) \cup {""}}
  ELSE {Absent}
\* c.Query(key): the value, or "" when the parameter is absent
Query(param) == IF param.present THEN param.value ELSE ""

NoRequest == [route |-> "", param |-> Absent]

VARIABLES
  entry,          \* "main": main.go's setupRouter; "routes": routes.SetupRouter
  nRestaurants,   \* how many documents the remote restaurants collection holds
  pc,             \* per request: idle, handler, token, await, done
  req,            \* per request: its route and subCollection parameter
  nextPageToken,  \* per request: FetchDocumentsFromFirestore's local
  allDocuments,   \* per request: FetchDocumentsFromFirestore's local
  resp,           \* per request: the response sent
  tokens,         \* per request: token acquisitions made (history)
  sent,           \* per request: remote requests sent (history)
  received        \* per request: remote replies received (history)

vars == <<entry, nRestaurants, pc, req, nextPageToken, allDocuments, resp,
          tokens, sent, received>>

Init ==
  /\ entry \in {"main", "routes"}
  /\ nRestaurants \in {0, MaxRestaurants}
  /\ pc = [r \in Requests |-> "idle"]
  /\ req = [r \in Requests |-> NoRequest]
  /\ nextPageToken = [r \in Requests |-> ""]
  /\ allDocuments = [r \in Requests |-> JNull]
  /\ resp = [r \in Requests |-> NoResponse]
  /\ tokens = [r \in Requests |-> 0]
  /\ sent = [r \in Requests |-> <<>>]
  /\ received = [r \in Requests |-> <<>>]

\* an incoming GET request is dispatched to its handler
Arrive(r) ==
  /\ pc[r] = "idle"
  /\ \E route \in Routes :
       \E param \in Params(route) :
         req' = [req EXCEPT ![r] = [route |-> route, param |-> param]]
  /\ pc' = [pc EXCEPT ![r] = "handler"]
  /\ UNCHANGED <<entry, nRestaurants, nextPageToken, allDocuments, resp,
                 tokens, sent, received>>

Finish(r, response) ==
  /\ resp' = [resp EXCEPT ![r] = response]
  /\ pc' = [pc EXCEPT ![r] = "done"]

\* a base route that probes the remote before answering
HomeHandlerProbing(r) ==
  /\ pc[r] = "handler" /\ req[r].route = "/"
  /\ pc' = [pc EXCEPT ![r] = "token"]
  /\ UNCHANGED <<entry, nRestaurants, req, nextPageToken, allDocuments, resp,
                 tokens, sent, received>>

HomeHandler(r) ==
  /\ pc[r] = "handler" /\ req[r].route = "/"
  /\ Finish(r, HomeResponse)
  /\ UNCHANGED <<entry, nRestaurants, req, nextPageToken, allDocuments,
                 tokens, sent, received>>

\* the handler calls the fetch, which first asks for a token
RestaurantsCacheHandler(r) ==
  /\ pc[r] = "handler" /\ req[r].route = "/restaurants-cache"
  /\ pc' = [pc EXCEPT ![r] = "token"]
  /\ nextPageToken' = [nextPageToken EXCEPT ![r] = ""]
  /\ allDocuments' = [allDocuments EXCEPT ![r] = JNull]
  /\ UNCHANGED <<entry, nRestaurants, req, resp, tokens, sent, received>>

\* a parameter c.GetQuery would report as absent (an empty value passes)
SubCollectionAbsent(param) == ~param.present

\* if subCollection == "" { 400 }
SubCollectionMissing(param) == Query(param) = ""

\* LatestOrdersHandler and DeadLettersHandler up to the fetch
SubCollectionHandler(r) ==
  /\ pc[r] = "handler"
  /\ req[r].route \in {"/latest-orders", "/dead-letters-specific"}
  /\ IF SubCollectionMissing(req[r].param)
     THEN Finish(r, ErrorResponse(400, ParamRequired))
     ELSE pc' = [pc EXCEPT ![r] = "token"] /\ UNCHANGED resp
  /\ UNCHANGED <<entry, nRestaurants, req, nextPageToken, allDocuments,
                 tokens, sent, received>>

\* the request a fetch sends once it holds a token
RequestOf(r) ==
  IF req[r].route = "/restaurants-cache"
  THEN ListRequest("restaurants", nextPageToken[r])
  ELSE RunQueryRequest(Query(req[r].param))

\* GetFirestoreAccessToken, then http.DefaultClient.Do sends the request
GetFirestoreAccessToken(r) ==
  /\ pc[r] = "token"
  /\ tokens' = [tokens EXCEPT ![r] = @ + 1]
  /\ \E ok \in BOOLEAN :
       IF ok
       THEN /\ sent' = [sent EXCEPT ![r] = Append(@, RequestOf(r))]
            /\ pc' = [pc EXCEPT ![r] = "await"]
            /\ UNCHANGED resp
       ELSE /\ Finish(r, ErrorResponse(500,
                   "failed to get access token: " \o TokenErrorText))
            /\ UNCHANGED sent
  /\ UNCHANGED <<entry, nRestaurants, req, nextPageToken, allDocuments, received>>


\* ------------------------------------------------ the remote's replies
TransportFailure == [transport |-> TRUE, status |-> 0, body |-> JNull]
HttpReply(status, body) == [transport |-> FALSE, status |-> status, body |-> body]

\* every outcome of one exchange: the transport fails, the remote answers
\* 503, it answers 200 with an undecodable body, or it answers 200 with its
\* data (a list page of any size the remote likes).
Replies(st, request) ==
  {TransportFailure, HttpReply(503, GarbageBody), HttpReply(200, GarbageBody)}
  \cup {HttpReply(200, RemoteBody(st, request, size)) : size \in 1..MaxPageSize}

\* the error a fetch returns before decoding, "" when there is none;
\* api is the spelling the function uses ("firestore" or "Firestore")
ReplyError(reply, api) ==
  IF reply.transport THEN "failed to make request: " \o TransportErrorText
  ELSE IF reply.status # 200
       THEN api \o " API returned error: " \o StatusText(reply.status)
       ELSE ""

ParseErrorText == "failed to parse response: json: cannot unmarshal"

\* a failed fetch that hands back what it has, answered 200
FetchFailedPartial(r, msg) ==
  /\ Finish(r, RestaurantsRespond(allDocuments[r]))
  /\ UNCHANGED <<nextPageToken, allDocuments>>

\* a failed fetch that tries the same request again (twice at most)
FetchFailedRetry(r, msg) ==
  IF tokens[r] <= 2
  THEN /\ pc' = [pc EXCEPT ![r] = "token"]
       /\ UNCHANGED <<resp, nextPageToken, allDocuments>>
  ELSE /\ Finish(r, ErrorResponse(500, msg))
       /\ UNCHANGED <<nextPageToken, allDocuments>>

\* a failed fetch: the handler answers 500 with the error alone
FetchFailed(r, msg) ==
  /\ Finish(r, ErrorResponse(500, msg))
  /\ UNCHANGED <<nextPageToken, allDocuments>>

\* an accumulator shared by all requests (a package-level variable)
AccumulatedShared(r) == allDocuments[1]

\* the slice the paginated loop accumulates into
Accumulated(r) == allDocuments[r]

\* one decoded page in FetchDocumentsFromFirestore
\* main.go: no loop, the page's documents are the result.
\* services: append, then stop on an empty nextPageToken or go round again.
ListPageDecoded(r, result) ==
  IF entry = "main"
  THEN /\ Finish(r, RestaurantsRespond(result.Documents))
       /\ UNCHANGED <<nextPageToken, allDocuments>>
  ELSE LET all == GoAppend(Accumulated(r), SliceItems(result.Documents))
       IN /\ allDocuments' = [allDocuments EXCEPT ![r] = all]
          /\ IF result.NextPageToken = ""
             THEN /\ Finish(r, RestaurantsRespond(all))
                  /\ UNCHANGED nextPageToken
             ELSE /\ nextPageToken' = [nextPageToken EXCEPT ![r] = result.NextPageToken]
                  /\ pc' = [pc EXCEPT ![r] = "token"]
                  /\ UNCHANGED resp

\* the reply to a documents list request arrives
FetchDocumentsFromFirestore(r) ==
  /\ pc[r] = "await" /\ req[r].route = "/restaurants-cache"
  /\ \E reply \in Replies(Store(nRestaurants), sent[r][Len(sent[r])]) :
       /\ received' = [received EXCEPT ![r] = Append(@, reply)]
       /\ LET e == ReplyError(reply, "firestore")
              result == DecodeListResult(reply.body)
          IN IF e # "" THEN FetchFailed(r, e)
             ELSE IF result.err THEN FetchFailed(r, ParseErrorText)
             ELSE ListPageDecoded(r, result.v)
  /\ UNCHANGED <<entry, nRestaurants, req, tokens, sent>>

\* the reply to /latest-orders' runQuery arrives; the handler processes it
FetchDocumentsFromFirestoreWithSubcollection(r) ==
  /\ pc[r] = "await" /\ req[r].route = "/latest-orders"
  /\ \E reply \in Replies(Store(nRestaurants), sent[r][Len(sent[r])]) :
       /\ received' = [received EXCEPT ![r] = Append(@, reply)]
       /\ LET e == ReplyError(reply, "Firestore")
              result == DecodeQueryResult(reply.body)
          IN IF e # "" THEN FetchFailed(r, e)
             ELSE IF result.err THEN FetchFailed(r, ParseErrorText)
             ELSE /\ Finish(r, LatestOrdersRespond(Query(req[r].param), result.v))
                  /\ UNCHANGED <<nextPageToken, allDocuments>>
  /\ UNCHANGED <<entry, nRestaurants, req, tokens, sent>>

\* the reply to /dead-letters-specific's runQuery arrives; the handler
\* processes it
FetchSpecificDocumentsFromFirestore(r) ==
  /\ pc[r] = "await" /\ req[r].route = "/dead-letters-specific"
  /\ \E reply \in Replies(Store(nRestaurants), sent[r][Len(sent[r])]) :
       /\ received' = [received EXCEPT ![r] = Append(@, reply)]
       /\ LET e == ReplyError(reply, "Firestore")
              result == DecodeQueryResult(reply.body)
          IN IF e # "" THEN FetchFailed(r, e)
             ELSE IF result.err THEN FetchFailed(r, ParseErrorText)
             ELSE /\ Finish(r, DeadLettersRespond(entry,
                         SpecificDocuments(Query(req[r].param), result.v)))
                  /\ UNCHANGED <<nextPageToken, allDocuments>>
  /\ UNCHANGED <<entry, nRestaurants, req, tokens, sent>>

\* the response is out and the goroutine ends: nothing of the request remains
Complete(r) ==
  /\ pc[r] = "done"
  /\ pc' = [pc EXCEPT ![r] = "idle"]
  /\ req' = [req EXCEPT ![r] = NoRequest]
  /\ nextPageToken' = [nextPageToken EXCEPT ![r] = ""]
  /\ allDocuments' = [allDocuments EXCEPT ![r] = JNull]
  /\ resp' = [resp EXCEPT ![r] = NoResponse]
  /\ tokens' = [tokens EXCEPT ![r] = 0]
  /\ sent' = [sent EXCEPT ![r] = <<>>]
  /\ received' = [received EXCEPT ![r] = <<>>]
  /\ UNCHANGED <<entry, nRestaurants>>

Step(r) ==
    \/ Arrive(r)
    \/ HomeHandler(r)
    \/ RestaurantsCacheHandler(r)
    \/ SubCollectionHandler(r)
    \/ GetFirestoreAccessToken(r)
    \/ FetchDocumentsFromFirestore(r)
    \/ FetchDocumentsFromFirestoreWithSubcollection(r)
    \/ FetchSpecificDocumentsFromFirestore(r)
    \/ Complete(r)

\* requests served concurrently, each by its own goroutine
Next == \E r \in Requests : Step(r)

Spec == Init /\ [][Next]_vars

\* requests served one after the other
NextSerial == Step(1)

SpecSerial == Init /\ [][NextSerial]_vars

\* =============================================================== claims
DataRoutes == {"/restaurants-cache", "/latest-orders", "/dead-letters-specific"}
SubRoutes == {"/latest-orders", "/dead-letters-specific"}
Done(r) == pc[r] = "done"

\* the entries of a response's documents list (none for null or no list)
ResponseDocuments(response) ==
  IF response.body.t = "map" /\ "documents" \in DOMAIN response.body.m
  THEN SliceItems(response.body.m["documents"])
  ELSE <<>>

\* whether reply (to a request of `route`) makes the fetch fail
ReplyFailed(route, reply) ==
  \/ reply.transport
  \/ reply.status # 200
  \/ IF route = "/restaurants-cache" THEN DecodeListResult(reply.body).err
     ELSE DecodeQueryResult(reply.body).err

\* the fetch of a finished request returned without error
FetchSucceeded(r) ==
  /\ Done(r) /\ received[r] # <<>>
  /\ Len(received[r]) = tokens[r]
  /\ ~ReplyFailed(req[r].route, received[r][Len(received[r])])

\* every document of the remote restaurants collection, as marshalled
AllRestaurants == SeqMap(LAMBDA d : d.doc, Restaurants(nRestaurants))

\* C1: a 200 response of /restaurants-cache lists every document of every
\* page of the remote result, whichever router serves the endpoint.
C1_AllPagesReturned ==
  \A r \in Requests :
    (Done(r) /\ req[r].route = "/restaurants-cache" /\ resp[r].status = 200)
      => ResponseDocuments(resp[r]) = AllRestaurants

\* C2: whatever the shape of the documents a successful query returns,
\* LatestOrdersHandler and DeadLettersHandler complete with their own 200
\* response; no type assertion fails.
C2_NoPanic ==
  \A r \in Requests :
    (req[r].route \in SubRoutes /\ FetchSucceeded(r))
      => resp[r].status = 200 /\ resp[r] # RecoveryResponse

\* the documents a runQuery reply carries (the elements with a document)
RECURSIVE ReplyDocuments(_)
ReplyDocuments(elements) ==
  IF elements = <<>> THEN <<>>
  ELSE (IF "document" \in DOMAIN Head(elements).m
        THEN <<Head(elements).m["document"]>> ELSE <<>>)
       \o ReplyDocuments(Tail(elements))

\* the stringValue of a document's field, "" when the field is absent
EchoedString(doc, key) ==
  IF "fields" \in DOMAIN doc.m /\ key \in DOMAIN doc.m["fields"].m
  THEN doc.m["fields"].m[key].m["stringValue"].s
  ELSE ""

EchoedEntry(sub, doc, entry_) ==
  /\ entry_.m["name"] = doc.m["name"]
  /\ entry_.m["fields"] = MapIndex(doc, "fields")
  /\ entry_.m["combinedField"] =
       JStr(sub \o " - " \o EchoedString(doc, "orderNumber") \o " - "
            \o EchoedString(doc, "createdAt") \o " - "
            \o EchoedString(doc, "datePosted"))

\* C3: on a successful query returning d1..dn, /latest-orders answers 200
\* with n entries in order, entry i echoing di's name and fields and the
\* combinedField built from its three string fields ("" when absent).
C3_LatestOrdersEcho ==
  \A r \in Requests :
    (req[r].route = "/latest-orders" /\ FetchSucceeded(r))
      => LET docs == ReplyDocuments(received[r][1].body.a)
             out == ResponseDocuments(resp[r])
         IN /\ resp[r].status = 200
            /\ Len(out) = Len(docs)
            /\ \A i \in DOMAIN docs :
                 EchoedEntry(Query(req[r].param), docs[i], out[i])

\* C4: /latest-orders and /dead-letters-specific without a subCollection
\* (absent or empty) answer 400 "subCollection query parameter is required"
\* and neither acquire a token nor send anything to the remote.
C4_MissingParamRejected ==
  \A r \in Requests :
    (req[r].route \in SubRoutes /\ Query(req[r].param) = "")
      => /\ tokens[r] = 0 /\ sent[r] = <<>> /\ received[r] = <<>>
         /\ pc[r] \in {"handler", "done"}
         /\ Done(r) => resp[r] = ErrorResponse(400, ParamRequired)

C4_Witness ==
  \E r \in Requests :
    /\ Done(r) /\ req[r].route = "/dead-letters-specific"
    /\ req[r].param = [present |-> TRUE, value |-> ""]
    /\ resp[r].status = 400

\* the fetch of a finished request failed: the last token acquisition
\* failed, or the last reply did
FetchFailure(r) ==
  /\ Done(r) /\ tokens[r] > 0
  /\ \/ tokens[r] > Len(sent[r])
     \/ ReplyFailed(req[r].route, received[r][Len(received[r])])

\* C5: when any step against the remote fails (token, transport, status,
\* decoding), also on a later page, the data endpoints answer 500 with an
\* error field alone: no documents, no 200.
C5_FailureGives500 ==
  \A r \in Requests :
    (req[r].route \in DataRoutes /\ FetchFailure(r))
      => /\ resp[r].status = 500
         /\ resp[r].body.t = "map"
         /\ DOMAIN resp[r].body.m = {"error"}

C5_Witness ==
  \E r \in Requests :
    /\ req[r].route = "/restaurants-cache" /\ FetchFailure(r)
    /\ Len(received[r]) >= 2
    /\ allDocuments[r].t = "array"
    /\ resp[r].status = 500

ReadOnlyRequest(q) ==
  \/ /\ q.method = "GET" /\ q.path = "documents" /\ q.collection # ""
     /\ q.payload = JNull
  \/ /\ q.method = "POST" /\ q.path = "documents:runQuery"
     /\ q.payload.t = "map" /\ DOMAIN q.payload.m = {"structuredQuery"}

\* C6: the only requests ever sent to the remote are GETs of a collection's
\* documents list and POSTs of a structuredQuery to documents:runQuery.
C6_ReadOnly ==
  \A r \in Requests : \A i \in DOMAIN sent[r] : ReadOnlyRequest(sent[r][i])

C6_Witness ==
  \E r \in Requests :
    /\ Done(r) /\ resp[r].status = 200
    /\ sent[r] # <<>> /\ sent[r][1].method = "POST"

\* C7: no retries.  A request is sent only after every earlier one of the
\* same incoming request was answered successfully; the runQuery routes send
\* at most one; /restaurants-cache asks for each page token at most once.
C7_NoRetries ==
  \A r \in Requests :
    /\ Len(sent[r]) <= Len(received[r]) + 1
    /\ \A i \in DOMAIN received[r] :
         ReplyFailed(req[r].route, received[r][i]) => Len(sent[r]) = i /\ Done(r)
    /\ req[r].route \in SubRoutes => Len(sent[r]) <= 1
    /\ \A i, j \in DOMAIN sent[r] :
         i # j => sent[r][i].pageToken # sent[r][j].pageToken

C7_Witness ==
  \E r \in Requests :
    /\ req[r].route = "/restaurants-cache" /\ Done(r)
    /\ Len(sent[r]) = 2
    /\ ReplyFailed(req[r].route, received[r][2])

\* the names of the documents one reply to a request of `route` carried
ReplyNames(route, reply) ==
  IF ReplyFailed(route, reply) THEN {}
  ELSE IF route = "/restaurants-cache"
       THEN LET ds == SliceItems(DecodeListResult(reply.body).v.Documents)
            IN {ds[k].Name : k \in DOMAIN ds}
       ELSE LET ds == DecodeQueryResult(reply.body).v
            IN {ds[k].Name : k \in DOMAIN ds}

\* the names of the documents the replies to a request carried
ReceivedNames(r) ==
  UNION {ReplyNames(req[r].route, received[r][i]) : i \in DOMAIN received[r]}

\* C8: no caching, no shared state.  Two finished requests with the same
\* route and parameter whose token acquisitions and remote replies were the
\* same got the same response; a response lists only documents its own
\* replies carried; and every data request that got past its parameter check
\* and its token acquisition queried the remote itself.
C8_NoSharedState ==
  /\ \A r1, r2 \in Requests :
       (Done(r1) /\ Done(r2) /\ req[r1] = req[r2] /\ tokens[r1] = tokens[r2]
        /\ received[r1] = received[r2])
         => resp[r1] = resp[r2]
  /\ \A r \in Requests :
       Done(r) =>
         /\ \A i \in DOMAIN ResponseDocuments(resp[r]) :
              ResponseDocuments(resp[r])[i].m["name"].s \in ReceivedNames(r)
         /\ (req[r].route \in DataRoutes /\ resp[r].status = 200)
              => /\ sent[r] # <<>>
                 /\ Len(received[r]) = Len(sent[r])
                 /\ Len(sent[r]) = tokens[r]

C8_Witness ==
  \E r1, r2 \in Requests :
    /\ r1 # r2 /\ Done(r1) /\ Done(r2)
    /\ entry = "routes"
    /\ req[r1].route = "/restaurants-cache" /\ req[r2] = req[r1]
    /\ resp[r1].status = 200 /\ resp[r2].status = 200
    /\ Len(sent[r1]) = 3 /\ Len(sent[r2]) = 2

\* the parent path of the stored document called `name`
ParentOf(name) ==
  LET st == Store(nRestaurants)
  IN st[CHOOSE i \in DOMAIN st : st[i].doc.m["name"].s = name].parent

IsStored(name) ==
  \E i \in DOMAIN Store(nRestaurants) : Store(nRestaurants)[i].doc.m["name"].s = name

\* C9: /dead-letters-specific lists only documents under dead-letters/NANALL
\* and /latest-orders only documents of the latest-orders collection; a
\* collection of the same id under another parent contributes nothing.
C9_OnlyNamedCollection ==
  \A r \in Requests :
    (Done(r) /\ req[r].route \in SubRoutes /\ resp[r].status = 200)
      => \A i \in DOMAIN ResponseDocuments(resp[r]) :
           LET name == ResponseDocuments(resp[r])[i].m["name"].s
           IN IsStored(name) =>
                IF req[r].route = "/dead-letters-specific"
                THEN ParentOf(name) = DeadParent
                ELSE Head(ParentOf(name)) = "latest-orders"

\* C10: GET / answers 200 {"message": "Server is running"} whatever the
\* remote and the credential provider do, and serving it acquires no token
\* and sends nothing to the remote.
C10_HomeAlwaysUp ==
  \A r \in Requests :
    req[r].route = "/"
      => /\ tokens[r] = 0 /\ sent[r] = <<>> /\ received[r] = <<>>
         /\ pc[r] \in {"handler", "done"}
         /\ Done(r) => resp[r] = HomeResponse

C10_Witness ==
  \E r \in Requests :
    Done(r) /\ req[r].route = "/" /\ resp[r] = HomeResponse

\* the documents and the nextPageToken of a list reply, as the remote sent them
PageDocuments(reply) ==
  IF reply.body.t = "map" THEN SliceItems(MapIndex(reply.body, "documents")) ELSE <<>>
PageNextToken(reply) ==
  IF reply.body.t = "map" /\ "nextPageToken" \in DOMAIN reply.body.m
  THEN reply.body.m["nextPageToken"].s ELSE ""

\* the documents of the successful pages, in the order the pages arrived
RECURSIVE ConcatPages(_)
ConcatPages(replies) ==
  IF replies = <<>> THEN <<>>
  ELSE (IF ReplyFailed("/restaurants-cache", Head(replies)) THEN <<>>
        ELSE PageDocuments(Head(replies))) \o ConcatPages(Tail(replies))

\* C11: in the paginated FetchDocumentsFromFirestore the first request has
\* no pageToken, request k+1 carries the nextPageToken of reply k, a token
\* is acquired before each request, the loop stops at the first reply with
\* an empty nextPageToken, and the result is the pages' documents
\* concatenated in arrival order, none dropped or duplicated.
C11_PaginationProtocol ==
  \A r \in Requests :
    (entry = "routes" /\ req[r].route = "/restaurants-cache")
      => /\ tokens[r] >= Len(sent[r]) /\ tokens[r] <= Len(sent[r]) + 1
         /\ pc[r] = "await" => tokens[r] = Len(sent[r])
         /\ sent[r] # <<>> => sent[r][1].pageToken = ""
         /\ \A i \in DOMAIN sent[r] :
              i > 1 => /\ ~ReplyFailed(req[r].route, received[r][i - 1])
                       /\ PageNextToken(received[r][i - 1]) # ""
                       /\ sent[r][i].pageToken = PageNextToken(received[r][i - 1])
         /\ \A i \in DOMAIN received[r] :
              (~ReplyFailed(req[r].route, received[r][i])
               /\ PageNextToken(received[r][i]) = "")
                => Len(sent[r]) = i /\ Done(r) /\ resp[r].status = 200
         /\ SeqMap(MarshalDocument, SliceItems(allDocuments[r]))
              = ConcatPages(received[r])
         /\ (Done(r) /\ resp[r].status = 200)
              => /\ ResponseDocuments(resp[r]) = ConcatPages(received[r])
                 /\ PageNextToken(received[r][Len(received[r])]) = ""

C11_Witness ==
  \E r \in Requests :
    /\ entry = "routes" /\ req[r].route = "/restaurants-cache"
    /\ Done(r) /\ resp[r].status = 200
    /\ Len(sent[r]) = 3 /\ tokens[r] = 3
    /\ Len(ResponseDocuments(resp[r])) = MaxRestaurants


\* ---- /dead-letters-specific: one entry per StoreOrders element
\* a Firestore string value: {"stringValue": <string>}
IsStringValue(v) ==
  v.t = "map" /\ DOMAIN v.m = {"stringValue"} /\ v.m["stringValue"].t = "string"

\* a Firestore map value: {"mapValue": {"fields": {...}}}
IsMapValue(v) ==
  /\ v.t = "map" /\ DOMAIN v.m = {"mapValue"}
  /\ v.m["mapValue"].t = "map" /\ "fields" \in DOMAIN v.m["mapValue"].m
  /\ v.m["mapValue"].m["fields"].t = "map"

FieldsOfMapValue(v) == v.m["mapValue"].m["fields"].m

\* a Firestore array value: {"arrayValue": {"values": [...]}}, the values
\* left out when the array is empty
IsArrayValue(v) ==
  /\ v.t = "map" /\ DOMAIN v.m = {"arrayValue"}
  /\ v.m["arrayValue"].t = "map"
  /\ "values" \in DOMAIN v.m["arrayValue"].m
       => v.m["arrayValue"].m["values"].t = "array"

ValuesOfArrayValue(v) ==
  IF "values" \in DOMAIN v.m["arrayValue"].m
  THEN v.m["arrayValue"].m["values"].a ELSE <<>>

WellFormedStoreOrder(o) ==
  /\ IsMapValue(o)
  /\ "BillTo" \in DOMAIN FieldsOfMapValue(o)
  /\ IsMapValue(FieldsOfMapValue(o)["BillTo"])
  /\ \A k \in {"State", "StoreCode", "Suburb"} :
       /\ k \in DOMAIN FieldsOfMapValue(FieldsOfMapValue(o)["BillTo"])
       /\ IsStringValue(FieldsOfMapValue(FieldsOfMapValue(o)["BillTo"])[k])

\* a dead letter as the producer writes it: no fields at all, or an
\* errorMessage string and an originalPayload map holding an OrderNumber
\* string and a StoreOrders array (possibly empty) of orders with a BillTo
WellFormedDeadLetter(doc) ==
  "fields" \in DOMAIN doc.m =>
    LET fields == doc.m["fields"].m
    IN /\ "errorMessage" \in DOMAIN fields /\ IsStringValue(fields["errorMessage"])
       /\ "originalPayload" \in DOMAIN fields /\ IsMapValue(fields["originalPayload"])
       /\ LET payload == FieldsOfMapValue(fields["originalPayload"])
          IN /\ "OrderNumber" \in DOMAIN payload /\ IsStringValue(payload["OrderNumber"])
             /\ "StoreOrders" \in DOMAIN payload /\ IsArrayValue(payload["StoreOrders"])
             /\ \A i \in DOMAIN ValuesOfArrayValue(payload["StoreOrders"]) :
                  WellFormedStoreOrder(ValuesOfArrayValue(payload["StoreOrders"])[i])

StoreOrdersOf(doc) ==
  IF "fields" \in DOMAIN doc.m
  THEN ValuesOfArrayValue(
         FieldsOfMapValue(doc.m["fields"].m["originalPayload"])["StoreOrders"])
  ELSE <<>>

\* the entry the endpoint is to emit for one StoreOrders element of doc
ExpectedDeadEntry(doc, storeOrder) ==
  LET fields == doc.m["fields"].m
      payload == FieldsOfMapValue(fields["originalPayload"])
      billTo == FieldsOfMapValue(FieldsOfMapValue(storeOrder)["BillTo"])
  IN JMap("combinedField" :>
            JStr(payload["OrderNumber"].m["stringValue"].s \o " - "
                 \o billTo["State"].m["stringValue"].s \o " - "
                 \o billTo["StoreCode"].m["stringValue"].s \o " - "
                 \o billTo["Suburb"].m["stringValue"].s \o " - "
                 \o fields["errorMessage"].m["stringValue"].s)
          @@ "name" :> doc.m["name"]
          @@ "fields" :> doc.m["fields"])

RECURSIVE ExpectedDeadEntries(_)
ExpectedDeadEntries(docs) ==
  IF docs = <<>> THEN <<>>
  ELSE [i \in DOMAIN StoreOrdersOf(Head(docs)) |->
          ExpectedDeadEntry(Head(docs), StoreOrdersOf(Head(docs))[i])]
       \o ExpectedDeadEntries(Tail(docs))

\* C12: on a successful query whose documents are all well formed,
\* /dead-letters-specific answers 200 with exactly one entry per element of
\* each document's originalPayload.StoreOrders, in document order and then
\* StoreOrders order; a document with no StoreOrders or with no fields
\* contributes nothing; each entry has the document's name and fields and
\* the combinedField of OrderNumber, BillTo State, StoreCode, Suburb and
\* errorMessage joined by " - ".
C12_OneEntryPerStoreOrder ==
  \A r \in Requests :
    (req[r].route = "/dead-letters-specific" /\ FetchSucceeded(r))
      => LET docs == ReplyDocuments(received[r][1].body.a)
         IN (\A i \in DOMAIN docs : WellFormedDeadLetter(docs[i]))
              => /\ resp[r].status = 200
                 /\ ResponseDocuments(resp[r]) = ExpectedDeadEntries(docs)

\* the same, for results in which every document with fields has at least
\* one StoreOrders element
C12_NonEmptyStoreOrders ==
  \A r \in Requests :
    (req[r].route = "/dead-letters-specific" /\ FetchSucceeded(r))
      => LET docs == ReplyDocuments(received[r][1].body.a)
         IN (\A i \in DOMAIN docs :
               /\ WellFormedDeadLetter(docs[i])
               /\ "fields" \in DOMAIN docs[i].m => StoreOrdersOf(docs[i]) # <<>>)
              => /\ resp[r].status = 200
                 /\ ResponseDocuments(resp[r]) = ExpectedDeadEntries(docs)

C12_NonEmptyWitness ==
  \E r \in Requests :
    /\ req[r].route = "/dead-letters-specific" /\ FetchSucceeded(r)
    /\ resp[r].status = 200
    /\ Len(ReplyDocuments(received[r][1].body.a)) = 4
    /\ Len(ResponseDocuments(resp[r])) = 4
====
